---------------------------- MODULE Spec2Model ----------------------------
(***************************************************************************)
(* Face-recognition attendance tracker: the embedding store and attendance *)
(* ledger of src/face_vector.py (FaceEmbeddingDB) and the request handlers *)
(* of src/app/main.py that drive them.                                     *)
(*                                                                         *)
(* Every handler is an `async def` whose store calls are blocking          *)
(* psycopg2 statements, each committed on its own.  A deployment runs one  *)
(* or more server processes (Workers) in front of one store; the           *)
(* statements of requests handled by different processes interleave at     *)
(* statement granularity, so every store statement is one action.          *)
(* The full program (Spec) is explored through restrictions: IdSpec (the   *)
(* identity store: enroll, batch, delete, reset, interleaved), SeqSpec     *)
(* (attendance requests over two enrolled identities, one request in       *)
(* flight at a time), RaceSpec (the same requests interleaved), MixSpec    *)
(* (every request, one at a time, the clock standing still) and FlowSpec   *)
(* (enroll, attendance, read, delete and reset requests interleaved, the   *)
(* clock standing still).  SearchSpec applies vector_search to stores of   *)
(* up to MaxRows identities; EnrollSpec interleaves enroll and delete_user *)
(* requests only.                                                          *)
(* The store is taken to stay reachable: a statement fails only for what   *)
(* the tables hold (dropped tables, a foreign key without its row, a batch *)
(* that names a row twice).                                                *)
(***************************************************************************)
EXTENDS Integers, Sequences, FiniteSets

VARIABLES
    face_embeddings, \* table face_embeddings: sequence of rows [name, embedding]
    attendance,      \* table attendance: sequence of rows, in insertion order
    tables_exist,    \* FALSE once DROP TABLE has run (nothing re-creates them)
    now,             \* the store's clock (CURRENT_TIMESTAMP), in ticks
    tz_offset,       \* application clock minus store clock, in ticks
    req,             \* req[w]: the request worker w is handling
    result           \* the response returned by the last step, if it returned one

vars == <<face_embeddings, attendance, tables_exist, now, tz_offset, req, result>>

---------------------------------------------------------------------------
(* Bounds of the model *)

\* last tick of the store's clock
MaxTime == 2
\* ticks per calendar day
DayLen == 2
\* check-in/out requests are accepted while the ledger rows and the requests
\* in flight are fewer than this
MaxEvents == 2
\* longest batch handed to store_multiple_embeddings
MaxBatch == 2

\* most rows of the identity store when vector_search is checked on its own
MaxRows == 6
\* most identities of such a store that share one encoding
MaxCopies == 2

Workers == {1, 2}

\* names as character sequences, so that str.strip() is modelled by what it does
Names == {<<"a">>, <<"b">>}
RawNames == Names \cup {<<>>, <<" ">>, <<" ", "a", " ">>}

\* face encodings (2 of the 128 dimensions are enough to order by cosine)
Embeddings == {<<4, 0>>, <<4, 1>>, <<2, 1>>}
NoFace == <<>>
Photos == Embeddings \cup {NoFace}

\* reported positions, in 1e-7 degrees
Office  == [lat |-> 165422428, lon |-> 814968464]
JustOut == [lat |-> 165432000, lon |-> 814968464]
Far     == [lat |-> 0, lon |-> 0]
Locations == {Office, JustOut, Far}

---------------------------------------------------------------------------
(* Pure functions *)

\* GEOFENCES: the single configured zone
GEOFENCES == {Office}

\* MAX_DISTANCE, in metres
MAX_DISTANCE == 100

\* haversine(lat1, lon1, lat2, lon2) in centimetres (rounded down), tabulated
\* from the source formula for the positions of the model
haversine(p, q) ==
    IF p = q THEN 0
    ELSE IF {p, q} = {Office, JustOut} THEN 10643
    ELSE 910144223

\* the gate with the distance left in kilometres
is_within_geofence_km(loc) ==
    \E geofence \in GEOFENCES : haversine(loc, geofence) <= MAX_DISTANCE * 100 * 1000

\* is_within_geofence: any(haversine(...) <= MAX_DISTANCE for geofence in GEOFENCES)
is_within_geofence(loc) ==
    \E geofence \in GEOFENCES : haversine(loc, geofence) <= MAX_DISTANCE * 100

\* str.strip(): drop leading and trailing blanks
RECURSIVE lstrip(_)
lstrip(s) == IF s # <<>> /\ Head(s) = " " THEN lstrip(Tail(s)) ELSE s

RECURSIVE rstrip(_)
rstrip(s) ==
    IF s # <<>> /\ s[Len(s)] = " " THEN rstrip(SubSeq(s, 1, Len(s) - 1)) ELSE s

strip(s) == rstrip(lstrip(s))

\* cosine similarity 1 - (a <=> b), compared exactly on integers
Dot(a, b) == a[1] * b[1] + a[2] * b[2]
Norm2(a) == Dot(a, a)

\* similarity threshold of vector_search: 0.9 = ThresholdNum / ThresholdDen
ThresholdNum == 9
ThresholdDen == 10

\* 1 - (a <=> b) > 0.9
AboveThreshold(a, b) ==
    /\ Dot(a, b) > 0
    /\ ThresholdDen * ThresholdDen * Dot(a, b) * Dot(a, b)
          > ThresholdNum * ThresholdNum * Norm2(a) * Norm2(b)

\* a is strictly closer to q than b is (both with positive similarity)
Closer(a, b, q) ==
    Dot(a, q) * Dot(a, q) * Norm2(b) > Dot(b, q) * Dot(b, q) * Norm2(a)

\* DATE(event_time), in the store's time zone
DATE(t) == t \div DayLen

\* datetime.now().date(), on the application's clock
AppToday == (now + tz_offset) \div DayLen

---------------------------------------------------------------------------
(* The store: FaceEmbeddingDB *)

\* a statement of worker w reaches the store and finds its tables
StatementRuns(w) == tables_exist

\* rows of a table that satisfy a predicate, as a set of indexes
RowsOf(tbl, user) == {i \in DOMAIN tbl : tbl[i].name = user}

\* a plain INSERT into a table without the UNIQUE constraint
Upsert_insert(tbl, name, embedding) ==
    Append(tbl, [name |-> name, embedding |-> embedding])

\* INSERT ... ON CONFLICT (name) DO UPDATE SET embedding = EXCLUDED.embedding
Upsert(tbl, name, embedding) ==
    IF RowsOf(tbl, name) # {}
    THEN [i \in DOMAIN tbl |->
            IF tbl[i].name = name THEN [tbl[i] EXCEPT !.embedding = embedding]
            ELSE tbl[i]]
    ELSE Append(tbl, [name |-> name, embedding |-> embedding])

\* the batch of store_multiple_embeddings as one INSERT statement: a batch
\* that names a row twice is refused by the store ("cannot affect row a
\* second time")
BatchNames(batch) == {batch[i].name : i \in DOMAIN batch}
\* a store that refuses no batch
BatchAccepted_any(batch) == TRUE

BatchAccepted(batch) == Cardinality(BatchNames(batch)) = Len(batch)

RECURSIVE UpsertAll(_, _)
UpsertAll(tbl, batch) ==
    IF batch = <<>> THEN tbl
    ELSE UpsertAll(Upsert(tbl, Head(batch).name, Head(batch).embedding), Tail(batch))

\* the test of embedding_exists (embedding = %s) in place of the similarity
Matches_exact(w, encoding) ==
    IF StatementRuns(w)
    THEN {i \in DOMAIN face_embeddings : face_embeddings[i].embedding = encoding}
    ELSE {}

\* vector_search: the rows whose similarity to the encoding exceeds 0.9
Matches(w, encoding) ==
    IF StatementRuns(w)
    THEN {i \in DOMAIN face_embeddings :
            AboveThreshold(face_embeddings[i].embedding, encoding)}
    ELSE {}

\* the rows vector_search may return first (ORDER BY embedding <=> encoding;
\* the order among equally distant rows is the store's choice)
FirstMatches(w, encoding) ==
    {i \in Matches(w, encoding) :
        \A j \in Matches(w, encoding) :
            ~Closer(face_embeddings[j].embedding, face_embeddings[i].embedding, encoding)}

\* LIMIT 5
SearchLimit == 5

\* the lists a search may return from the rows S, at most k long: ORDER BY
\* embedding <=> encoding puts the closest row first, rows at the same distance
\* in the order the store chooses
RECURSIVE Ranked(_, _, _)
Ranked(S, k, encoding) ==
    IF S = {} \/ k = 0 THEN {<<>>}
    ELSE UNION {{<<face_embeddings[i]>> \o rest :
                    rest \in Ranked(S \ {i}, k - 1, encoding)} :
                 i \in {j \in S :
                          \A l \in S :
                             ~Closer(face_embeddings[l].embedding,
                                     face_embeddings[j].embedding, encoding)}}

\* the query without its LIMIT clause
vector_search_unlimited(w, encoding) ==
    Ranked(Matches(w, encoding), Len(face_embeddings), encoding)

\* vector_search(encoding): the lists it may return ([] when the statement
\* fails)
vector_search(w, encoding) ==
    Ranked(Matches(w, encoding), SearchLimit, encoding)

\* has_checked_in_today / has_checked_out_today: the SELECT, with the
\* application's date as parameter; FALSE when the statement fails
HasEventToday(w, user_name, event_type) ==
    /\ StatementRuns(w)
    /\ \E i \in DOMAIN attendance :
          /\ attendance[i].user_name = user_name
          /\ attendance[i].event_type = event_type
          /\ DATE(attendance[i].event_time) = AppToday

has_checked_in_today(w, user_name) == HasEventToday(w, user_name, "checkin")
has_checked_out_today(w, user_name) == HasEventToday(w, user_name, "checkout")

\* the attendance table without its foreign key
ForeignKeyHolds_off(user_name) == TRUE

\* FOREIGN KEY (user_name) REFERENCES face_embeddings (name)
ForeignKeyHolds(user_name) == RowsOf(face_embeddings, user_name) # {}

\* the row log_attendance inserts; event_time DEFAULT CURRENT_TIMESTAMP
AttendanceRow(user_name, event_type, latitude, longitude) ==
    [user_name |-> user_name, event_type |-> event_type, event_time |-> now,
     latitude |-> latitude, longitude |-> longitude]

\* log_attendance's INSERT is accepted
LogAccepted(w, user_name) == StatementRuns(w) /\ ForeignKeyHolds(user_name)

\* DELETE FROM face_embeddings WHERE name = ..., with ON DELETE CASCADE
DeleteIdentityRows(tbl, name) ==
    LET Keep(row) == row.name # name IN SelectSeq(tbl, Keep)

\* the foreign key without ON DELETE CASCADE enforcement: the rows stay
CascadeAttendance_none(tbl, name) == tbl

\* a DELETE that empties the ledger
CascadeAttendance_all(tbl, name) == <<>>

CascadeAttendance(tbl, name) ==
    LET Keep(row) == row.user_name # name IN SelectSeq(tbl, Keep)

\* get_user_attendance_report: GROUP BY DATE(event_time), MAX(event_time) per
\* event type, ORDER BY attendance_date DESC.  An absent time (SQL NULL) is
\* <<>>, a present one <<t>>.
EventTimes(user_name, event_type, date) ==
    {attendance[i].event_time : i \in
        {j \in DOMAIN attendance :
            /\ attendance[j].user_name = user_name
            /\ attendance[j].event_type = event_type
            /\ DATE(attendance[j].event_time) = date}}

SetMax(S) == CHOOSE m \in S : \A x \in S : x <= m

\* MIN in place of MAX
MinOrNull(S) == IF S = {} THEN <<>> ELSE <<CHOOSE m \in S : \A x \in S : m <= x>>

MaxOrNull(S) == IF S = {} THEN <<>> ELSE <<SetMax(S)>>

AttendanceDates(user_name) ==
    {DATE(attendance[i].event_time) : i \in
        {j \in DOMAIN attendance : attendance[j].user_name = user_name}}

ReportRow(user_name, date) ==
    [date |-> date,
     checkin_time |-> MaxOrNull(EventTimes(user_name, "checkin", date)),
     checkout_time |-> MaxOrNull(EventTimes(user_name, "checkout", date))]

RECURSIVE ReportRows(_, _)
ReportRows(user_name, dates) ==
    IF dates = {} THEN <<>>
    ELSE <<ReportRow(user_name, SetMax(dates))>>
            \o ReportRows(user_name, dates \ {SetMax(dates)})

\* the list get_user_attendance_report returns ([] when the statement fails)
get_user_attendance_report(w, user_name) ==
    IF StatementRuns(w) THEN ReportRows(user_name, AttendanceDates(user_name))
    ELSE <<>>

\* the rows of a table with the indexes S, in every order a SELECT without
\* ORDER BY may give them
RECURSIVE AnyOrder(_, _)
AnyOrder(tbl, S) ==
    IF S = {} THEN {<<>>}
    ELSE UNION {{<<tbl[i]>> \o rest : rest \in AnyOrder(tbl, S \ {i})} : i \in S}

\* retrieve_all_data: every identity with the time of its latest checkin and
\* of its latest checkout event (LIMIT 1 of ORDER BY event_time DESC), absent
\* without one
IdentitySummary(row) ==
    [name |-> row.name, embedding |-> row.embedding,
     latest_checkin |->
        MaxOrNull({attendance[i].event_time : i \in
                     {j \in DOMAIN attendance :
                         /\ attendance[j].user_name = row.name
                         /\ attendance[j].event_type = "checkin"}}),
     latest_checkout |->
        MaxOrNull({attendance[i].event_time : i \in
                     {j \in DOMAIN attendance :
                         /\ attendance[j].user_name = row.name
                         /\ attendance[j].event_type = "checkout"}})]

\* the lists retrieve_all_data may return ([] when the statement fails)
retrieve_all_data(w) ==
    IF StatementRuns(w)
    THEN {[k \in DOMAIN rows |-> IdentitySummary(rows[k])] :
             rows \in AnyOrder(face_embeddings, DOMAIN face_embeddings)}
    ELSE {<<>>}

\* the events with the indexes S, latest first (ORDER BY event_time DESC),
\* events of one time in the order the store chooses
RECURSIVE LatestFirst(_)
LatestFirst(S) ==
    IF S = {} THEN {<<>>}
    ELSE UNION {{<<[event_type |-> attendance[i].event_type,
                    event_time |-> attendance[i].event_time]>> \o rest :
                    rest \in LatestFirst(S \ {i})} :
                 i \in {j \in S : \A l \in S :
                          attendance[l].event_time <= attendance[j].event_time}}

\* the lists retrieve_attendance may return ([] when the statement fails)
retrieve_attendance(w, user_name) ==
    IF StatementRuns(w)
    THEN LatestFirst({i \in DOMAIN attendance : attendance[i].user_name = user_name})
    ELSE {<<>>}

---------------------------------------------------------------------------
(* Requests *)

Idle ==
    [pc |-> "idle", op |-> "none", name |-> <<>>, encoding |-> <<>>,
     latitude |-> 0, longitude |-> 0]

Outcome(op, outcome) == [op |-> op, outcome |-> outcome, report |-> <<>>]

\* a step that answers no request
NoResponse == Outcome("none", "none")

\* face_processor._process_employee_image: the encoding of the face in the
\* photo, None (NoFace) when it shows no face
process_employee_image(photo) == photo

\* the name face_processor gives to a face that matches no stored row
Unknown == <<"Unknown">>

\* face_processor.process_video_frame: the list of detected faces, of which
\* the handlers read the first.  No face in the photo: the empty list; a face
\* for which vector_search returns no row: 'Unknown'; else the name of the row
\* vector_search returns first.  The set of lists it may answer.
process_video_frame(w, photo) ==
    IF photo = NoFace THEN {<<>>}
    ELSE IF Matches(w, photo) = {} THEN {<<Unknown>>}
    ELSE {<<face_embeddings[i].name>> : i \in FirstMatches(w, photo)}

Init ==
    /\ face_embeddings = <<>>
    /\ attendance = <<>>
    /\ tables_exist = TRUE
    /\ now = 0
    /\ tz_offset \in {-1, 0}
    /\ req = [w \in Workers |-> Idle]
    /\ result = NoResponse

\* a new request goes to the first server process that is free
Dispatch(w) ==
    /\ req[w].pc = "idle"
    /\ \A v \in Workers : v < w => req[v].pc # "idle"

\* the request of worker w ends with this outcome
Finish(w, op, outcome) ==
    /\ req' = [req EXCEPT ![w] = Idle]
    /\ result' = Outcome(op, outcome)

\* enroll_photo, up to the first store statement: name validation and the
\* encoding of the photo
StartEnroll(w, raw_name, photo) ==
    /\ Dispatch(w)
    /\ UNCHANGED <<face_embeddings, attendance, tables_exist, now, tz_offset>>
    /\ IF strip(raw_name) = <<>>
       THEN Finish(w, "enroll", "name_empty")
       ELSE IF process_employee_image(photo) = NoFace
       THEN Finish(w, "enroll", "no_embedding")
       ELSE /\ req' = [req EXCEPT ![w] =
                        [Idle EXCEPT !.pc = "search", !.op = "enroll",
                                     !.name = strip(raw_name),
                                     !.encoding = process_employee_image(photo)]]
            /\ result' = NoResponse

\* enroll_photo: similar_embeddings = db_handler.vector_search(encoding)
EnrollSearch(w) ==
    /\ req[w].pc = "search"
    /\ UNCHANGED <<face_embeddings, attendance, tables_exist, now, tz_offset>>
    /\ IF Matches(w, req[w].encoding) # {}
       THEN Finish(w, "enroll", "duplicate_face")
       ELSE /\ req' = [req EXCEPT ![w].pc = "store"]
            /\ result' = NoResponse

\* enroll_photo: db_handler.store_embedding(name, encoding)
EnrollStore(w) ==
    /\ req[w].pc = "store"
    /\ UNCHANGED <<attendance, tables_exist, now, tz_offset>>
    /\ IF ~StatementRuns(w)
       THEN /\ Finish(w, "enroll", "store_failed")
            /\ UNCHANGED face_embeddings
       ELSE /\ face_embeddings' = Upsert(face_embeddings, req[w].name, req[w].encoding)
            /\ Finish(w, "enroll", "success")

\* store_multiple_embeddings(embeddings_data): one statement, one commit
BulkUpsert(w, batch) ==
    /\ Dispatch(w)
    /\ UNCHANGED <<attendance, tables_exist, now, tz_offset, req>>
    /\ IF StatementRuns(w) /\ BatchAccepted(batch)
       THEN /\ face_embeddings' = UpsertAll(face_embeddings, batch)
            /\ result' = Outcome("bulk", "success")
       ELSE /\ UNCHANGED face_embeddings
            /\ result' = Outcome("bulk", "failure")

\* the workers serving a check-in or check-out request
Checking == {v \in Workers : req[v].op \in {"checkin", "checkout"}}

\* process_checkin / process_checkout, up to the first store statement: the
\* geofence gate
StartCheck(w, op, photo, loc) ==
    /\ Dispatch(w)
    /\ Len(attendance) + Cardinality(Checking) < MaxEvents
    /\ UNCHANGED <<face_embeddings, attendance, tables_exist, now, tz_offset>>
    /\ IF ~is_within_geofence(loc)
       THEN Finish(w, op, "geofence")
       ELSE /\ req' = [req EXCEPT ![w] =
                        [Idle EXCEPT !.pc = "match", !.op = op, !.encoding = photo,
                                     !.latitude = loc.lat, !.longitude = loc.lon]]
            /\ result' = NoResponse

\* detected_faces = face_processor.process_video_frame(...), and the test
\* detected_faces and detected_faces[0]['name'] != 'Unknown'
Match(w) ==
    /\ req[w].pc = "match"
    /\ UNCHANGED <<face_embeddings, attendance, tables_exist, now, tz_offset>>
    /\ \E detected_faces \in process_video_frame(w, req[w].encoding) :
          IF detected_faces # <<>> /\ detected_faces[1] # Unknown
          THEN /\ req' = [req EXCEPT ![w].pc = "check",
                                      ![w].name = detected_faces[1],
                                      ![w].encoding = <<>>]
               /\ result' = NoResponse
          ELSE Finish(w, req[w].op, "not_recognized")

\* if db_handler.has_checked_in_today(user_name) (resp. has_checked_out_today)
AlreadyToday(w) ==
    /\ req[w].pc = "check"
    /\ UNCHANGED <<face_embeddings, attendance, tables_exist, now, tz_offset>>
    /\ IF (IF req[w].op = "checkin" THEN has_checked_in_today(w, req[w].name)
           ELSE has_checked_out_today(w, req[w].name))
       THEN Finish(w, req[w].op, "already")
       ELSE /\ req' = [req EXCEPT ![w].pc = "log"]
            /\ result' = NoResponse

\* db_handler.log_attendance(user_name, op, latitude, longitude), its result
\* dropped, then return success
Log(w) ==
    /\ req[w].pc = "log"
    /\ UNCHANGED <<face_embeddings, tables_exist, now, tz_offset>>
    /\ attendance' =
          IF LogAccepted(w, req[w].name)
          THEN Append(attendance,
                      AttendanceRow(req[w].name, req[w].op,
                                    req[w].latitude, req[w].longitude))
          ELSE attendance
    /\ Finish(w, req[w].op, "success")

\* delete_user(name): DELETE ... WHERE name = %s, rowcount > 0
DeleteUser(w, name) ==
    /\ Dispatch(w)
    /\ UNCHANGED <<tables_exist, now, tz_offset, req>>
    /\ IF StatementRuns(w)
       THEN /\ face_embeddings' = DeleteIdentityRows(face_embeddings, name)
            /\ attendance' = CascadeAttendance(attendance, name)
            /\ result' = Outcome("delete",
                                 IF RowsOf(face_embeddings, name) # {}
                                 THEN "success" ELSE "not_found")
       ELSE /\ UNCHANGED <<face_embeddings, attendance>>
            /\ result' = Outcome("delete", "not_found")

\* DROP TABLE IF EXISTS face_embeddings CASCADE: the ledger is left standing
ResetAll_identities(w) ==
    /\ Dispatch(w)
    /\ UNCHANGED <<now, tz_offset, req, attendance>>
    /\ face_embeddings' = <<>>
    /\ tables_exist' = FALSE
    /\ result' = Outcome("reset", "success")

\* delete(): db_handler.delete_tables(), DROP TABLE IF EXISTS ... CASCADE
ResetAll(w) ==
    /\ Dispatch(w)
    /\ UNCHANGED <<now, tz_offset, req>>
    /\ face_embeddings' = <<>>
    /\ attendance' = <<>>
    /\ tables_exist' = FALSE
    /\ result' = Outcome("reset", "success")

\* get_user_report(user_name)
Report(w, user_name) ==
    /\ Dispatch(w)
    /\ UNCHANGED <<face_embeddings, attendance, tables_exist, now, tz_offset, req>>
    /\ result' =
          IF get_user_attendance_report(w, user_name) # <<>>
          THEN [op |-> "report", outcome |-> "success",
                report |-> get_user_attendance_report(w, user_name)]
          ELSE Outcome("report", "error")

\* find(): db_handler.retrieve_all_data()
ListAll(w) ==
    /\ Dispatch(w)
    /\ UNCHANGED <<face_embeddings, attendance, tables_exist, now, tz_offset, req>>
    /\ \E rows \in retrieve_all_data(w) :
          result' = [op |-> "getall", outcome |-> "rows", report |-> rows]

\* get_attendance(user_name): db_handler.retrieve_attendance(user_name)
Attendance(w, user_name) ==
    /\ Dispatch(w)
    /\ UNCHANGED <<face_embeddings, attendance, tables_exist, now, tz_offset, req>>
    /\ \E rows \in retrieve_attendance(w, user_name) :
          result' = [op |-> "attendance", outcome |-> "rows", report |-> rows]

\* db_handler.vector_search(encoding), called on its own; the list it answers
\* is kept together with the encoding it was asked for
Search(w, encoding) ==
    /\ Dispatch(w)
    /\ UNCHANGED <<face_embeddings, attendance, tables_exist, now, tz_offset, req>>
    /\ \E found \in vector_search(w, encoding) :
          result' = [op |-> "search", outcome |-> "rows", report |-> found,
                     query |-> encoding]

\* the store's clock advances
Tick ==
    /\ now < MaxTime
    /\ now' = now + 1
    /\ result' = NoResponse
    /\ UNCHANGED <<face_embeddings, attendance, tables_exist, tz_offset, req>>

\* the batches handed to store_multiple_embeddings
BatchEmbeddings == {<<4, 0>>, <<4, 1>>}
Batches ==
    UNION {[1..n -> [name : Names, embedding : BatchEmbeddings]] : n \in 1..MaxBatch}

\* the steps of worker w on the identity store
IdentityStep(w) ==
    \/ \E raw_name \in RawNames, photo \in Photos : StartEnroll(w, raw_name, photo)
    \/ EnrollSearch(w)
    \/ EnrollStore(w)
    \/ \E batch \in Batches : BulkUpsert(w, batch)

\* the steps of worker w on the attendance ledger
LedgerStep(w) ==
    \/ \E op \in {"checkin", "checkout"}, photo \in Photos, loc \in Locations :
          StartCheck(w, op, photo, loc)
    \/ Match(w)
    \/ AlreadyToday(w)
    \/ Log(w)
    \/ \E name \in Names : Report(w, name)

\* the requests of worker w that only read
ReadStep(w) ==
    \/ ListAll(w)
    \/ \E name \in Names : Attendance(w, name)

\* the steps of worker w on both
AdminStep(w) ==
    \/ \E name \in Names : DeleteUser(w, name)
    \/ ResetAll(w)

Next ==
    \/ \E w \in Workers : IdentityStep(w)
    \/ \E w \in Workers : LedgerStep(w)
    \/ \E w \in Workers : ReadStep(w)
    \/ \E w \in Workers : AdminStep(w)
    \/ Tick

\* the program: requests of several server processes, interleaved statement
\* by statement
Spec == Init /\ [][Next]_vars

---------------------------------------------------------------------------
(* Restrictions of Spec that are small enough to explore exhaustively *)

\* IdSpec: the requests that write the identity store, interleaved
IdNext ==
    \/ \E w \in Workers : IdentityStep(w)
    \/ \E w \in Workers : AdminStep(w)

IdSpec == Init /\ [][IdNext]_vars

\* a state of Spec after enroll("a", <<4, 0>>) and enroll("b", <<2, 1>>)
Enrolled ==
    /\ face_embeddings = <<[name |-> <<"a">>, embedding |-> <<4, 0>>],
                           [name |-> <<"b">>, embedding |-> <<2, 1>>]>>
    /\ attendance = <<>>
    /\ tables_exist = TRUE
    /\ now = 0
    /\ tz_offset \in {-1, 0}
    /\ req = [w \in Workers |-> Idle]
    /\ result = NoResponse

\* no other worker has a request in flight
Alone(w) == \A v \in Workers \ {w} : req[v].pc = "idle"

\* SeqSpec: the attendance requests on two enrolled identities, one request
\* at a time
SeqNext ==
    \/ \E w \in Workers : Alone(w) /\ LedgerStep(w)
    \/ \E w \in Workers : Alone(w) /\ AdminStep(w)
    \/ Tick

SeqSpec == Enrolled /\ [][SeqNext]_vars

\* RaceSpec: the same requests, interleaved
RaceNext ==
    \/ \E w \in Workers : LedgerStep(w)
    \/ \E w \in Workers : AdminStep(w)
    \/ Tick

RaceSpec == Enrolled /\ [][RaceNext]_vars

\* MixSpec: every request of the program, one at a time, the store's clock
\* standing still
MixNext ==
    \/ \E w \in Workers : Alone(w) /\ IdentityStep(w)
    \/ \E w \in Workers : Alone(w) /\ LedgerStep(w)
    \/ \E w \in Workers : Alone(w) /\ ReadStep(w)
    \/ \E w \in Workers : Alone(w) /\ AdminStep(w)

MixSpec == Init /\ [][MixNext]_vars

\* the photos of the people who enroll in FlowSpec
FlowPhotos == {<<4, 0>>, <<2, 1>>}

\* enroll requests with a name and a photo that shows a face
EnrollStep(w) ==
    \/ \E name \in Names, photo \in FlowPhotos : StartEnroll(w, name, photo)
    \/ EnrollSearch(w)
    \/ EnrollStore(w)

\* check-in and check-out requests from inside the zone, with a photo that
\* shows a face
CheckStep(w) ==
    \/ \E op \in {"checkin", "checkout"}, photo \in Embeddings :
          StartCheck(w, op, photo, Office)
    \/ Match(w)
    \/ AlreadyToday(w)
    \/ Log(w)

\* FlowSpec: enroll, check-in, check-out, read, delete and reset requests
\* interleaved, from the empty store, the clocks in step and standing still
FlowNext ==
    \/ \E w \in Workers : EnrollStep(w)
    \/ \E w \in Workers : CheckStep(w)
    \/ \E w \in Workers : ReadStep(w)
    \/ \E w \in Workers, name \in Names : Report(w, name)
    \/ \E w \in Workers : AdminStep(w)

\* the empty store, the application's clock in step with the store's
InStep == Init /\ tz_offset = 0

FlowSpec == InStep /\ [][FlowNext]_vars

\* EnrollSpec: enroll and delete_user requests interleaved, from the empty
\* store
EnrollNext ==
    \/ \E w \in Workers, raw_name \in RawNames, photo \in Photos :
          StartEnroll(w, raw_name, photo)
    \/ \E w \in Workers : EnrollSearch(w)
    \/ \E w \in Workers : EnrollStore(w)
    \/ \E w \in Workers, name \in Names : DeleteUser(w, name)

EnrollSpec == Init /\ [][EnrollNext]_vars

\* the name of the i-th identity of a stocked store
RowName(i) == [j \in 1..i |-> "a"]

\* a store holding up to MaxRows identities, no request in flight
Stocked ==
    /\ \E n \in 0..MaxRows : \E f \in [1..n -> Embeddings] :
          /\ \A e \in Embeddings : Cardinality({i \in 1..n : f[i] = e}) <= MaxCopies
          /\ face_embeddings =
                [i \in 1..n |-> [name |-> RowName(i), embedding |-> f[i]]]
    /\ attendance = <<>>
    /\ tables_exist = TRUE
    /\ now = 0
    /\ tz_offset = 0
    /\ req = [w \in Workers |-> Idle]
    /\ result = NoResponse

\* SearchSpec: one vector_search on a stocked store, before or after the
\* tables are dropped
SearchNext ==
    \/ \E w \in Workers, encoding \in Embeddings :
          result.op # "search" /\ Search(w, encoding)
    \/ \E w \in Workers : ResetAll(w)

SearchSpec == Stocked /\ [][SearchNext]_vars

---------------------------------------------------------------------------
(* Claims *)

\* the ledger rows of an identity, of one type, on one store date
EventsOn(user_name, event_type, date) ==
    {i \in DOMAIN attendance :
        /\ attendance[i].user_name = user_name
        /\ attendance[i].event_type = event_type
        /\ DATE(attendance[i].event_time) = date}

Dates == {DATE(t) : t \in 0..MaxTime}

\* C1: serving one request at a time, the ledger never holds two checkin
\* events of one identity on one calendar day (a second check-in that day is
\* turned down).  Stated as the claim has it; the code breaks it.
C1_OneCheckinPerDay ==
    \A n \in Names, d \in Dates : Cardinality(EventsOn(n, "checkin", d)) <= 1

\* C2: with the application's clock in step with the store's, no interleaving
\* of requests leaves two events of one type for one identity on one day.
\* Stated as the claim has it; the code breaks it.
C2_RaceSafe ==
    tz_offset = 0 =>
        \A n \in Names, t \in {"checkin", "checkout"}, d \in Dates :
            Cardinality(EventsOn(n, t, d)) <= 1

\* C3: a check-in or check-out answers success only if its event (identity,
\* type, reported coordinates) was appended to the ledger by that request.
\* Stated as the claim has it; the code breaks it.
C3_SuccessMeansLogged ==
    [][\A w \in Workers :
          (req[w].pc = "log" /\ req'[w].pc = "idle" /\ result'.outcome = "success")
          => attendance' = Append(attendance,
                                  [user_name |-> req[w].name,
                                   event_type |-> req[w].op,
                                   event_time |-> now,
                                   latitude |-> req[w].latitude,
                                   longitude |-> req[w].longitude])]_vars

\* a position farther than the radius from every configured zone
OutsideEveryZone(loc) ==
    \A zone \in GEOFENCES : haversine(loc, zone) > MAX_DISTANCE * 100

\* C4: a check-in or check-out reported from outside every zone is answered
\* with the geofence rejection at once, whatever the photo and the ledger
\* hold: the request ends there (no face is matched) and the identity store
\* and the ledger are as before; and the geofence rejection is only ever
\* given at that point.
C4_GeofenceFirst ==
    [][/\ \A w \in {v \in Workers : Dispatch(v)},
             loc \in {l \in Locations : OutsideEveryZone(l)},
             op \in {"checkin", "checkout"}, photo \in Photos :
             StartCheck(w, op, photo, loc)
             => /\ result' = Outcome(op, "geofence")
                /\ req'[w].pc = "idle"
                /\ face_embeddings' = face_embeddings
                /\ attendance' = attendance
       /\ result'.outcome = "geofence"
             => /\ \A w \in Workers : req[w].pc = "idle" \/ req'[w] = req[w]
                /\ attendance' = attendance]_vars

\* C4 witness: a check-out turned down by the gate while the ledger holds a
\* checkin event
C4_Witness ==
    /\ result = Outcome("checkout", "geofence")
    /\ \E i \in DOMAIN attendance : attendance[i].event_type = "checkin"

\* the rows of a table that belong to a name, in table order
IdentitiesOf(tbl, name) == LET Is(row) == row.name = name IN SelectSeq(tbl, Is)
AttendanceOf(tbl, name) == LET Is(row) == row.user_name = name IN SelectSeq(tbl, Is)

\* C5: when delete_user(X) answers success, the ledger holds no event of X,
\* X has no identity row, and the identity rows and events of every other
\* name are what they were.
C5_DeleteCascades ==
    [][\A w \in Workers, X \in Names :
          (result' = Outcome("delete", "success") /\ DeleteUser(w, X))
          => /\ AttendanceOf(attendance', X) = <<>>
             /\ IdentitiesOf(face_embeddings', X) = <<>>
             /\ \A Y \in Names \ {X} :
                   /\ AttendanceOf(attendance', Y) = AttendanceOf(attendance, Y)
                   /\ IdentitiesOf(face_embeddings', Y)
                         = IdentitiesOf(face_embeddings, Y)]_vars

\* C5 witness: a delete has succeeded and the other identity's events are
\* still in the ledger
C5_Witness ==
    /\ result = Outcome("delete", "success")
    /\ Len(face_embeddings) = 1
    /\ \E i \in DOMAIN attendance :
          attendance[i].user_name = face_embeddings[1].name

RowCount(tbl, name) == Cardinality(RowsOf(tbl, name))

\* C6: the identity store never holds two rows of one name; a name stored by
\* enroll or by a batch has exactly one row afterwards, also when it had one
\* before; and a name with a row keeps exactly one until it is deleted or the
\* tables are dropped.
C6_OneRowPerName ==
    [][/\ \A n \in Names : RowCount(face_embeddings', n) <= 1
       /\ \A w \in {v \in Workers : req[v].pc = "store"} :
             (EnrollStore(w) /\ result'.outcome = "success")
             => RowCount(face_embeddings', req[w].name) = 1
       /\ result' = Outcome("bulk", "success")
             => \A w \in {v \in Workers : Dispatch(v)}, batch \in Batches :
                   BulkUpsert(w, batch)
                   => \A n \in BatchNames(batch) : RowCount(face_embeddings', n) = 1
       /\ \A n \in Names :
             (RowCount(face_embeddings, n) = 1 /\ result'.op \notin {"delete", "reset"})
             => RowCount(face_embeddings', n) = 1]_vars

\* C6 witness: a batch has just stored name a over the row a already had.  The
\* row of a still precedes the row of b, whose encoding no batch carries, so a
\* was enrolled before b and the batch updated that row in place.
C6_Witness ==
    /\ result = Outcome("bulk", "success")
    /\ face_embeddings = <<[name |-> <<"a">>, embedding |-> <<4, 1>>],
                           [name |-> <<"b">>, embedding |-> <<2, 1>>]>>

\* C7: an enroll for a name that already has a row, with a face encoding that
\* differs from the stored one and resembles no other identity's, passes the
\* duplicate-face check and goes on to store the new encoding.  Stated as the
\* claim has it; the code breaks it.
C7_ReEnrollOverwrites ==
    [][\A w \in {v \in Workers : req[v].pc = "search"} :
          (/\ EnrollSearch(w)
           /\ tables_exist
           /\ \E i \in DOMAIN face_embeddings :
                 /\ face_embeddings[i].name = req[w].name
                 /\ face_embeddings[i].embedding # req[w].encoding
           /\ \A i \in DOMAIN face_embeddings :
                 face_embeddings[i].name # req[w].name
                 => ~AboveThreshold(face_embeddings[i].embedding, req[w].encoding))
          => req'[w].pc = "store"]_vars

\* C8: a check-out is turned down as already done when the ledger holds a
\* checkout event of the identity on the store's current date (a second
\* check-out that day), and goes on to be logged when it holds none, whether
\* or not it holds a checkin event.  Stated as the claim has it; the code
\* breaks it.
C8_CheckoutGate ==
    [][\A w \in {v \in Workers : req[v].pc = "check" /\ req[v].op = "checkout"} :
          AlreadyToday(w)
          => IF EventsOn(req[w].name, "checkout", DATE(now)) # {}
             THEN result' = Outcome("checkout", "already")
             ELSE req'[w].pc = "log"]_vars

\* C9: a check-in (resp. check-out) is turned down as already done exactly
\* when the ledger holds an event of that type of the identity whose store
\* date is the store's current date, whatever the application's clock says.
\* Stated as the claim has it; the code breaks it.
C9_LedgerDate ==
    [][\A w \in {v \in Workers : req[v].pc = "check"} :
          AlreadyToday(w)
          => (result'.outcome = "already"
                <=> EventsOn(req[w].name, req[w].op, DATE(now)) # {})]_vars

\* the event times of an identity, of one type, on one store date
TimesOn(user_name, event_type, date) ==
    {attendance[i].event_time : i \in EventsOn(user_name, event_type, date)}

\* the time a report entry must carry for a type: absent without an event,
\* else an event time of that day that no other exceeds
IsLatest(entry_time, times) ==
    IF times = {} THEN entry_time = <<>>
    ELSE /\ Len(entry_time) = 1
         /\ entry_time[1] \in times
         /\ \A t \in times : t <= entry_time[1]

\* C10: the report of a name has exactly one entry for every store date on
\* which the name has an event and none for any other date; each entry carries
\* the latest checkin time and the latest checkout time of its date, absent
\* when the date has no event of the type; so a date with a checkin and a
\* checkout event has one entry with both times set.
C10_ReportPerDay ==
    [][\A w \in {v \in Workers : Dispatch(v)}, n \in Names :
          (result'.op = "report" /\ Report(w, n))
          => LET r == result'.report IN
             /\ \A d \in Dates :
                   Cardinality({k \in DOMAIN r : r[k].date = d})
                      = IF \E t \in {"checkin", "checkout"} : EventsOn(n, t, d) # {}
                        THEN 1 ELSE 0
             /\ \A k \in DOMAIN r :
                   /\ r[k].date \in Dates
                   /\ IsLatest(r[k].checkin_time, TimesOn(n, "checkin", r[k].date))
                   /\ IsLatest(r[k].checkout_time, TimesOn(n, "checkout", r[k].date))]_vars

\* C10 witness: a report of one entry, for a day with a checkin and a checkout
\* event, with both times set
C10_Witness ==
    /\ result.op = "report"
    /\ Len(result.report) = 1
    /\ result.report[1].checkin_time # <<>>
    /\ result.report[1].checkout_time # <<>>

\* the stored rows whose cosine similarity to a query exceeds 0.9
Hits(q) ==
    {i \in DOMAIN face_embeddings :
        /\ Dot(face_embeddings[i].embedding, q) > 0
        /\ 100 * Dot(face_embeddings[i].embedding, q)
               * Dot(face_embeddings[i].embedding, q)
              > 81 * Norm2(face_embeddings[i].embedding) * Norm2(q)}

\* C11: a search returns only stored rows whose similarity to the query
\* exceeds 0.9, each at most once; all of them when they are at most 5 and
\* else 5 of them; no row left out is closer to the query than a row returned;
\* the rows come closest first; and with no row above 0.9 the answer is the
\* empty list.
C11_NearestNeighbors ==
    result.op = "search"
    => LET r == result.report
           q == result.query
       IN /\ \A k \in DOMAIN r : \E i \in Hits(q) : r[k] = face_embeddings[i]
          /\ \A k, l \in DOMAIN r : k # l => r[k].name # r[l].name
          /\ Len(r) = IF Cardinality(Hits(q)) < 5 THEN Cardinality(Hits(q)) ELSE 5
          /\ \A k, l \in DOMAIN r :
                k < l => ~Closer(r[l].embedding, r[k].embedding, q)
          /\ \A i \in Hits(q) :
                (\A k \in DOMAIN r : r[k] # face_embeddings[i])
                => \A k \in DOMAIN r :
                      ~Closer(face_embeddings[i].embedding, r[k].embedding, q)
          /\ Hits(q) = {} => r = <<>> /\ result.outcome = "rows"

\* C11 witness: a search over six stored rows has returned five; the list
\* holds both <<4, 0>> and <<2, 1>>, which only the query <<4, 1>> resembles
\* together, and that query resembles every row of the store
C11_Witness ==
    /\ result.op = "search"
    /\ Len(face_embeddings) = 6
    /\ Len(result.report) = 5
    /\ \E k, l \in DOMAIN result.report :
          /\ result.report[k].embedding = <<4, 0>>
          /\ result.report[l].embedding = <<2, 1>>

\* C12: in every state of the identity store, a search for the stored
\* encoding of any identity returns a list that begins with that identity,
\* whichever order the store gives to equally distant rows.  Stated as the
\* claim has it; the code breaks it.
C12_SelfFirst ==
    \A i \in DOMAIN face_embeddings, w \in Workers :
        \A found \in vector_search(w, face_embeddings[i].embedding) :
            /\ found # <<>>
            /\ found[1].name = face_embeddings[i].name

\* C13: an enroll whose encoding has similarity above 0.9 to a stored
\* identity when the store is searched is answered with the duplicate-face
\* rejection and ends there; and an enroll answered with a rejection (duplicate
\* face, empty name, no encoding from the photo) leaves the identity store
\* and the ledger as they were.
C13_DuplicateRejected ==
    [][/\ \A w \in {v \in Workers : req[v].pc = "search"} :
             (EnrollSearch(w) /\ Hits(req[w].encoding) # {})
             => /\ result' = Outcome("enroll", "duplicate_face")
                /\ req'[w].pc = "idle"
       /\ (/\ result'.op = "enroll"
           /\ result'.outcome \in {"duplicate_face", "name_empty", "no_embedding"})
             => /\ face_embeddings' = face_embeddings
                /\ attendance' = attendance]_vars

\* C13 witness: an enroll has been turned down as a duplicate face of the one
\* stored identity, while the ledger holds an event
C13_Witness ==
    /\ result = Outcome("enroll", "duplicate_face")
    /\ Len(face_embeddings) = 1
    /\ face_embeddings[1].embedding = <<2, 1>>
    /\ attendance # <<>>

\* C14: delete_user(X) answers success exactly when X had an identity row,
\* and then the row is gone; it answers not found only when its DELETE ran and
\* found no row of X, the store staying as it was: a DELETE the store refuses
\* is not answered as not found.  Stated as the claim has it; the code breaks
\* it.
C14_DeleteResult ==
    [][\A w \in {v \in Workers : Dispatch(v)}, X \in Names :
          DeleteUser(w, X)
          => /\ result'.outcome = "success"
                   <=> (RowsOf(face_embeddings, X) # {}
                        /\ RowsOf(face_embeddings', X) = {})
             /\ result'.outcome = "not_found"
                   => /\ tables_exist
                      /\ RowsOf(face_embeddings, X) = {}
                      /\ face_embeddings' = face_embeddings
                      /\ attendance' = attendance]_vars

\* C15: a batch handed to store_multiple_embeddings is stored whole or not at
\* all.  A batch the store refuses (its tables are gone, or the batch names a
\* row twice) is answered with failure and both tables stay as they were; a
\* batch answered with success has every item in the store afterwards, name
\* and encoding.
C15_AllOrNothing ==
    [][/\ result'.op = "bulk" => result'.outcome \in {"success", "failure"}
       /\ result' = Outcome("bulk", "failure")
             => /\ face_embeddings' = face_embeddings
                /\ attendance' = attendance
       /\ result' = Outcome("bulk", "success")
             => \A w \in {v \in Workers : Dispatch(v)}, batch \in Batches :
                   BulkUpsert(w, batch)
                   => /\ tables_exist
                      /\ \A k, l \in DOMAIN batch :
                            k # l => batch[k].name # batch[l].name
                      /\ \A k \in DOMAIN batch :
                            \E i \in DOMAIN face_embeddings' :
                               /\ face_embeddings'[i].name = batch[k].name
                               /\ face_embeddings'[i].embedding
                                     = batch[k].embedding]_vars

\* C15 witness: a batch has failed on a store that has its tables and holds
\* an identity (the batch named a row twice)
C15_Witness ==
    /\ result = Outcome("bulk", "failure")
    /\ tables_exist
    /\ face_embeddings # <<>>

\* the outcomes a check-in or check-out request can be answered with
CheckOutcomes == {"geofence", "not_recognized", "already", "success"}

\* C16: a check-in or check-out whose photo shows no face, and one whose
\* photo shows a face that no stored identity resembles above 0.9, both end at
\* the face test without a ledger event; and whenever one request of each kind
\* is at the face test, the outcome given to the one without a face is not an
\* outcome the one with the unknown face can be given.  Stated as the claim
\* has it; the code breaks it.
C16_UnknownIsNotNoFace ==
    [][\A w \in {v \in Workers : req[v].pc = "match"} :
          (Match(w) /\ req[w].encoding = NoFace)
          => /\ attendance' = attendance
             /\ req'[w].pc = "idle"
             /\ \A u \in {v \in Workers : req[v].pc = "match"} :
                   (req[u].encoding # NoFace /\ Hits(req[u].encoding) = {})
                   => \A o \in CheckOutcomes :
                         result'.outcome = o
                         => ~ENABLED (Match(u) /\ result'.outcome = o)]_vars

\* C17: a reset drops the tables for good; from then on the identity store and
\* the ledger are empty whatever request runs or completes afterwards, and
\* getall, the attendance of a name and the report of a name answer with the
\* empty list.
C17_ResetIsFinal ==
    [][/\ result'.op = "reset" => ~tables_exist'
       /\ ~tables_exist => ~tables_exist'
       /\ ~tables_exist'
             => /\ face_embeddings' = <<>>
                /\ attendance' = <<>>
                /\ result'.op \in {"getall", "attendance", "report"}
                      => result'.report = <<>>]_vars

\* C17 witness: getall has answered with the empty list after a reset that
\* came while a check-in or check-out, already matched to a stored identity,
\* was about to log its event
C17_Witness ==
    /\ ~tables_exist
    /\ result = [op |-> "getall", outcome |-> "rows", report |-> <<>>]
    /\ \E w \in Workers : req[w].pc = "log"

\* C18: in every state, whatever the interleaving of enroll, check-in,
\* check-out, delete and reset requests, the user_name of every ledger event
\* is the name of an identity in the store.
C18_ReferentialIntegrity ==
    \A i \in DOMAIN attendance :
        \E j \in DOMAIN face_embeddings :
            face_embeddings[j].name = attendance[i].user_name

\* C18 witness: a check-in or check-out has run its insert while the tables
\* exist and the ledger is empty afterwards: its identity was deleted after
\* the match and the insert added no event
C18_Witness ==
    /\ result.op \in {"checkin", "checkout"}
    /\ result.outcome = "success"
    /\ tables_exist
    /\ attendance = <<>>

\* the ledger events whose identity has a row after the step, in ledger order
KeptEvents ==
    LET Stays(row) == RowsOf(face_embeddings', row.user_name) # {}
    IN SelectSeq(attendance, Stays)

\* C19: no step other than a reset changes, moves or removes a recorded event
\* whose identity still has a row afterwards: the ledger after the step is
\* those events, every field as it was and in their order, followed by at
\* most one new event.  So enroll, re-enroll of the same name, check-in,
\* check-out, report, attendance and getall leave every recorded event in
\* place, and a delete removes the events of the deleted name only.
C19_AppendOnly ==
    [][result'.op # "reset"
       => /\ Len(attendance') \in {Len(KeptEvents), Len(KeptEvents) + 1}
          /\ SubSeq(attendance', 1, Len(KeptEvents)) = KeptEvents
          /\ result'.op # "delete" => KeptEvents = attendance]_vars

\* C19 witness: an enroll has stored the one identity of the store while the
\* ledger holds an event of it; the event was recorded before, so the enroll
\* overwrote the row of that name and the event is still there
C19_Witness ==
    /\ result = Outcome("enroll", "success")
    /\ Len(face_embeddings) = 1
    /\ attendance # <<>>

\* C20: a check-in (resp. check-out) of a recognized identity is not turned
\* down as already done when the ledger holds no event of that type of that
\* identity on the store's current date, whatever it holds of earlier days
\* and of other identities; the request goes on to log its event and is
\* answered with success.  Stated as the claim has it; the code breaks it.
C20_ScopedToIdentityAndDay ==
    [][/\ \A w \in {v \in Workers : req[v].pc = "check"} :
             (AlreadyToday(w) /\ EventsOn(req[w].name, req[w].op, DATE(now)) = {})
             => req'[w].pc = "log"
       /\ \A w \in {v \in Workers : req[v].pc = "log"} :
             Log(w) => result' = Outcome(req[w].op, "success")]_vars

\* two encodings with cosine similarity above 0.9
Alike(a, b) ==
    /\ Dot(a, b) > 0
    /\ 100 * Dot(a, b) * Dot(a, b) > 81 * Norm2(a) * Norm2(b)

\* C21: whatever the interleaving of enroll and delete requests, no two
\* identities of the store with different names have encodings alike above
\* 0.9, and no query encoding is alike above 0.9 to the encodings of two
\* identities with different names.  Stated as the claim has it; the code
\* breaks it.
C21_FacesApart ==
    /\ \A i, j \in DOMAIN face_embeddings :
          face_embeddings[i].name # face_embeddings[j].name
          => ~Alike(face_embeddings[i].embedding, face_embeddings[j].embedding)
    /\ \A q \in Embeddings :
          Cardinality({face_embeddings[i].name : i \in Hits(q)}) <= 1

=============================================================================
